---------------------------- MODULE Spec2Model ----------------------------
(***************************************************************************)
(* Element-wise arithmetic kernels of the ChainerX native (CPU) device,    *)
(* chainerx/native/native_device/arithmetic.cc.                            *)
(*                                                                         *)
(* Two state machines share this module.                                   *)
(*   SpecPrim  the FloorDivide overloads (lines 83-115) applied to inputs  *)
(*             drawn from bounded sets.                                    *)
(*   Spec      static registration of the eighteen kernels followed by     *)
(*             kernel invocations, each executed step by step: device      *)
(*             check, cast of the tensor input, dtype dispatch, scalar     *)
(*             conversion, the element-wise loop.                          *)
(*                                                                         *)
(* Values.  An integer element is a TLA+ integer kept inside the range of  *)
(* its type.  A floating-point element is a record: [c |-> "fin", n, d]    *)
(* is the value of the element type nearest to the rational n/d (n/d       *)
(* itself whenever it is representable, which is the case for every input  *)
(* the model draws), [c |-> "nan"] is NaN and [c |-> "inf"] with n = 1 or  *)
(* n = -1 is +Inf or -Inf.  Signed zeros are not distinguished.            *)
(*                                                                         *)
(* TLC evaluates integers in 32 bits.  int8, int16, uint8 and int32 keep   *)
(* their full range; int64 operands are drawn from the part of the int64   *)
(* range TLC can represent, in which the int64 overload cannot overflow.   *)
(***************************************************************************)
EXTENDS Integers, Sequences, FiniteSets, TLC

\* ------------------------------------------------------------------ bounds
\* Integer inputs of the primitive lie within Near of 0 or of a range end.
Near == 8
\* Floating inputs of the primitive are the multiples of 1/4 up to FRange/4.
FRange == 30
\* Longest tensor a kernel invocation is given.
MaxLen == 2

\* --------------------------------------------------------------- utilities
Abs(v) == IF v < 0 THEN 0 - v ELSE v

RECURSIVE Pow2(_)
Pow2(k) == IF k = 0 THEN 1 ELSE 2 * Pow2(k - 1)

RECURSIVE Gcd(_, _)
Gcd(a, b) == IF b = 0 THEN a ELSE Gcd(b, a % b)

\* ------------------------------------------------------------ element types
SignedInts == {"int8", "int16", "int32", "int64"}
IntegerTypes == SignedInts \cup {"uint8"}
FloatTypes == {"float16", "float32", "float64"}
NumericTypes == IntegerTypes \cup FloatTypes

Bits(t) ==
    CASE t = "bool" -> 1
      [] t \in {"int8", "uint8"} -> 8
      [] t \in {"int16", "float16"} -> 16
      [] t \in {"int32", "float32"} -> 32
      [] t \in {"int64", "float64"} -> 64

\* The ends of an integer type's range, for the types whose range TLC holds.
HasLimits(t) == t \in IntegerTypes /\ Bits(t) <= 32
IntMin(t) == IF t = "uint8" THEN 0 ELSE (0 - Pow2(Bits(t) - 2)) - Pow2(Bits(t) - 2)
IntMax(t) == IF t = "uint8" THEN 255 ELSE (Pow2(Bits(t) - 2) - 1) + Pow2(Bits(t) - 2)

\* static_cast to an integer type from a wider integer: the value modulo 2^w.
\* A type of 32 bits or more holds every integer TLC can represent.
StaticCastInt(t, v) ==
    IF Bits(t) >= 32 THEN v
    ELSE ((v - IntMin(t)) % Pow2(Bits(t))) + IntMin(t)

\* ------------------------------------------------------- std::div (cstdlib)
\* Quotient truncated toward zero and the remainder with the dividend's sign.
\* Written over \div and % with a positive divisor only, and without negating
\* an operand that may be the most negative integer.
DivPos(x, y) ==
    LET f == x \div y
        m == x % y
    IN  IF x < 0 /\ m # 0 THEN [quot |-> f + 1, rem |-> m - y]
        ELSE [quot |-> f, rem |-> m]

StdDiv(x, y) ==
    IF y > 0 THEN DivPos(x, y)
    ELSE IF x = y THEN [quot |-> 1, rem |-> 0]
    ELSE IF (x < 0 /\ y < x) \/ (x >= 0 /\ x + y < 0) THEN [quot |-> 0, rem |-> x]
    ELSE LET p == DivPos(x, 0 - y) IN [quot |-> 0 - p.quot, rem |-> p.rem]

\* std::div overflows, which is undefined behaviour, when the quotient is not
\* representable: the most negative value divided by -1.
StdDivOverflows(t, x, y) == HasLimits(t) /\ x = IntMin(t) /\ y = 0 - 1


\* ------------------------------------------- FloorDivide, integer overloads
\* int32_t FloorDivide(int32_t, int32_t) and int64_t FloorDivide(int64_t,
\* int64_t) have the same body; it is defined where std::div does not overflow.
\* Mutants: the quotient left truncated; the zero divisor left unguarded.
FloorDivideBodyTruncating(x, y) ==
    IF y = 0 THEN 0 ELSE StdDiv(x, y).quot

FloorDivideBodyUnguarded(x, y) ==
    IF y = 0 THEN x
    ELSE LET div == StdDiv(x, y)
         IN  div.quot - (IF (IF y >= 0 THEN div.rem ELSE 0 - div.rem) < 0 THEN 1 ELSE 0)

FloorDivideBody(x, y) ==
    IF y = 0 THEN 0
    ELSE LET div == StdDiv(x, y)
         IN  div.quot - (IF (IF y >= 0 THEN div.rem ELSE 0 - div.rem) < 0 THEN 1 ELSE 0)

FloorDivide_int32(x, y) == FloorDivideBody(x, y)
FloorDivide_int64(x, y) == FloorDivideBody(x, y)
FloorDivide_int8(x, y) == StaticCastInt("int8", FloorDivide_int32(x, y))
FloorDivide_int16(x, y) == StaticCastInt("int16", FloorDivide_int32(x, y))
\* Mutant: the uint8 zero divisor answered with the dividend.
FloorDivide_uint8Unguarded(x, y) == IF y = 0 THEN x ELSE x \div y
FloorDivide_uint8(x, y) == IF y = 0 THEN 0 ELSE x \div y

\* ------------------------------------------------- floating-point elements
NaN == [c |-> "nan", n |-> 0, d |-> 1]
Inf(s) == [c |-> "inf", n |-> s, d |-> 1]
Fin(n, d) ==
    LET g == Gcd(Abs(n), d)
    IN  [c |-> "fin", n |-> n \div g, d |-> d \div g]
FromInt(v) == Fin(v, 1)

IsNaN(a) == a.c = "nan"
Sgn(v) == IF v > 0 THEN 1 ELSE IF v < 0 THEN 0 - 1 ELSE 0
FLt0(a) == a.c # "nan" /\ a.n < 0
FGt0(a) == a.c # "nan" /\ a.n > 0
FIsZero(a) == a.c = "fin" /\ a.n = 0

Precision(t) ==
    CASE t = "float16" -> 11
      [] t = "float32" -> 24
      [] t = "float64" -> 53

RECURSIVE IsPow2(_)
IsPow2(d) == IF d = 1 THEN TRUE ELSE IF d % 2 # 0 THEN FALSE ELSE IsPow2(d \div 2)

\* Bits by which the magnitude m exceeds a significand of p bits.
RECURSIVE ExcessBits(_, _)
ExcessBits(m, p) ==
    IF p >= 31 THEN 0
    ELSE IF m < Pow2(p) THEN 0
    ELSE 1 + ExcessBits(m \div 2, p)

\* a / b rounded to the nearest integer, ties to even (a >= 0, b > 0).
RoundHalfEven(a, b) ==
    LET f == a \div b
        r == a % b
    IN  IF 2 * r < b THEN f
        ELSE IF 2 * r > b THEN f + 1
        ELSE IF f % 2 = 0 THEN f ELSE f + 1

\* Rounding of a binary fraction to the precision of a floating type; a
\* binary16 magnitude that rounds to 2^16 or more overflows to infinity.
Round(t, a) ==
    IF a.c # "fin" \/ ~IsPow2(a.d) THEN a
    ELSE LET k == ExcessBits(Abs(a.n), Precision(t))
             m == RoundHalfEven(Abs(a.n), Pow2(k)) * Pow2(k)
         IN  IF t = "float16" /\ m \div a.d >= 65536 THEN Inf(Sgn(a.n))
             ELSE Fin(Sgn(a.n) * m, a.d)

FNeg(a) == IF a.c = "nan" THEN a ELSE [a EXCEPT !.n = 0 - a.n]

FAdd(a, b) ==
    IF a.c = "nan" \/ b.c = "nan" THEN NaN
    ELSE IF a.c = "inf" THEN (IF b.c = "inf" /\ b.n # a.n THEN NaN ELSE a)
    ELSE IF b.c = "inf" THEN b
    ELSE Fin(a.n * b.d + b.n * a.d, a.d * b.d)

FSub(a, b) == FAdd(a, FNeg(b))

FMul(a, b) ==
    IF a.c = "nan" \/ b.c = "nan" THEN NaN
    ELSE IF a.c = "inf" \/ b.c = "inf"
         THEN (IF a.n = 0 \/ b.n = 0 THEN NaN ELSE Inf(Sgn(a.n) * Sgn(b.n)))
    ELSE Fin(a.n * b.n, a.d * b.d)

FDiv(a, b) ==
    IF a.c = "nan" \/ b.c = "nan" THEN NaN
    ELSE IF a.c = "inf"
         THEN (IF b.c = "inf" THEN NaN ELSE Inf(IF b.n < 0 THEN 0 - a.n ELSE a.n))
    ELSE IF b.c = "inf" THEN Fin(0, 1)
    ELSE IF b.n = 0 THEN (IF a.n = 0 THEN NaN ELSE Inf(Sgn(a.n)))
    ELSE Fin(a.n * b.d * Sgn(b.n), a.d * Abs(b.n))

\* std::fmod: x - trunc(x / y) * y, exact, with the sign of x.
Fmod(x, y) ==
    IF x.c = "nan" \/ y.c = "nan" \/ x.c = "inf" \/ FIsZero(y) THEN NaN
    ELSE IF y.c = "inf" THEN x
    ELSE Fin(StdDiv(x.n * y.d, Abs(y.n * x.d)).rem, x.d * y.d)

\* ------------------------------------ FloorDivide, floating-point overloads
\* Mutant: the quotient of x - rem and y, never lowered.
FloorDivideFloatingUnadjusted(t, x, y) ==
    Round(t, FDiv(Round(t, FSub(x, Fmod(x, y))), y))

FloorDivideFloating(t, x, y) ==
    LET rem == Fmod(x, y)
        adj == IF (FLt0(rem) /\ FGt0(y)) \/ (FGt0(rem) /\ FLt0(y)) THEN 1 ELSE 0
    IN  Round(t, FSub(Round(t, FDiv(Round(t, FSub(x, rem)), y)), FromInt(adj)))

FloorDivide_float(x, y) == FloorDivideFloating("float32", x, y)
FloorDivide_double(x, y) == FloorDivideFloating("float64", x, y)
\* static_cast<float>(Float16) is exact: every binary16 value is a binary32 value.
FloorDivide_Float16(x, y) == Round("float16", FloorDivide_float(x, y))

\* Overload resolution on the element type T of the call native::FloorDivide(x1, x2).
FloorDivide(t, x, y) ==
    CASE t = "int8" -> FloorDivide_int8(x, y)
      [] t = "int16" -> FloorDivide_int16(x, y)
      [] t = "int32" -> FloorDivide_int32(x, y)
      [] t = "int64" -> FloorDivide_int64(x, y)
      [] t = "uint8" -> FloorDivide_uint8(x, y)
      [] t = "float16" -> FloorDivide_Float16(x, y)
      [] t = "float32" -> FloorDivide_float(x, y)
      [] t = "float64" -> FloorDivide_double(x, y)

\* The call reaches std::div with operands whose quotient overflows.  The 8- and
\* 16-bit overloads divide in 32 bits, where their operands cannot overflow.
FloorDivideUndefined(t, x, y) ==
    t \in {"int32", "int64"} /\ StdDivOverflows(t, x, y)

\* ================================================================ variables
VARIABLES
    pT,          \* primitive: element type of the FloorDivide call
    pX,          \* primitive: dividend
    pY,          \* primitive: divisor
    pOut,        \* primitive: value returned
    pPc,         \* primitive: "ready", "returned" or "undefined"
    registry,    \* kernel keys registered so far, in registration order
    pc,          \* position of the process: static initialisation, idle, or a step of Call
    kernel,      \* key <<operator, variant>> of the kernel being invoked
    tin,         \* the tensor input: [dtype, buf]
    other,       \* the other operand: a Scalar [kind, v] or a tensor [dtype, buf]
    out,         \* the output tensor: [dtype, buf]
    out0,        \* contents of the output buffer when Call was entered
    compatible,  \* what CheckDevicesCompatible finds
    tinCast,     \* x1_cast / x2_cast of the tensor input: [buf, alias]
    otherCast,   \* x2_cast of the array-array kernels: [buf, alias]
    copies,      \* AsType copies created during this invocation
    T,           \* element type bound by the dtype visitor, "none" before
    captured,    \* the Impl member holding the converted scalar
    conversions, \* static_cast<T>(scalar) evaluations during this invocation
    idx,         \* next index of the element-wise loop
    applied,     \* invocations of Impl::operator() during this invocation
    failure      \* why the invocation failed: "none", "device" or "dtype"

pvars == <<pT, pX, pY, pOut, pPc>>
kvars == <<registry, pc, kernel, tin, other, out, out0, compatible, tinCast,
           otherCast, copies, T, captured, conversions, idx, applied, failure>>
vars == <<pvars, kvars>>

\* ======================================================= primitive machine
\* Integers within Near of zero or of an end of the type's range.  The ends of
\* the int64 range are beyond TLC's integers: int64 operands lie near zero or
\* near 2^30 and -2^30, where no step of the int64 overload can overflow.
IntInputs(t) ==
    IF t = "int64"
    THEN ((0 - Near) .. Near) \cup {Pow2(30) + j : j \in 0 .. Near}
             \cup {(0 - Pow2(30)) - j : j \in 0 .. Near}
    ELSE LET lo == IntMin(t)
             hi == IntMax(t)
         IN  {v \in {lo + j : j \in 0 .. Near} \cup ((0 - Near) .. Near)
                      \cup {hi - j : j \in 0 .. Near} : lo <= v /\ v <= hi}

FloatInputs == {Fin(n, 4) : n \in (0 - FRange) .. FRange}

PrimInputs(t) == IF t \in FloatTypes THEN FloatInputs ELSE IntInputs(t)

\* Results a build may produce where the call is undefined.
UndefinedResults(t) == {IntMin("int32"), 0, IntMax("int32")}

PrimReady ==
    /\ pT \in NumericTypes
    /\ pX \in PrimInputs(pT)
    /\ pY \in PrimInputs(pT)
    /\ pOut = 0
    /\ pPc = "ready"

PrimIdle ==
    /\ pT = "none"
    /\ pX = 0
    /\ pY = 0
    /\ pOut = 0
    /\ pPc = "off"

\* x = FloorDivide(a, b) returns.
PrimReturn ==
    /\ pPc = "ready"
    /\ ~FloorDivideUndefined(pT, pX, pY)
    /\ pOut' = FloorDivide(pT, pX, pY)
    /\ pPc' = "returned"
    /\ UNCHANGED <<pT, pX, pY, kvars>>

\* std::div overflowed: any result, or none.
PrimUndefined ==
    /\ pPc = "ready"
    /\ FloorDivideUndefined(pT, pX, pY)
    /\ \E r \in UndefinedResults(pT) : pOut' = r
    /\ pPc' = "undefined"
    /\ UNCHANGED <<pT, pX, pY, kvars>>

\* ========================================================== kernel machine
\* ------------------------------------------------- dtypes and dtype visitors
\* The catalogue of chainerx/dtype.h: the eight numeric element types and bool,
\* the one element type the full visitor accepts and the numeric visitor does not.
Dtypes == {"bool"} \cup NumericTypes

Accepts(visitor) ==
    CASE visitor = "VisitDtype" -> Dtypes
      [] visitor = "VisitNumericDtype" -> NumericTypes
      [] visitor = "VisitIntegralDtype" -> {"bool"} \cup IntegerTypes

\* CHAINERX_NATIVE_REGISTER_ELTWISE_BINARY_KERNEL is the _DTYPE_ macro with the
\* full visitor.
DefaultVisitor == "VisitDtype"

Ops == {"Add", "Subtract", "Multiply", "Divide", "FloorDivide",
        "BitwiseAnd", "BitwiseOr", "BitwiseXor"}
Bitwise == {"BitwiseAnd", "BitwiseOr", "BitwiseXor"}

\* The visitor each kernel's Call dispatches through.  Variants: "AA" is
\* Call(Array, Array, Array), "AS" Call(Array, Scalar, Array), "SA"
\* Call(Scalar, Array, Array).
\* Mutants: the bitwise scalar kernels, and the Subtract scalar kernel, sent
\* through the full visitor.
KernelVisitorBitwiseFull(op, variant) ==
    CASE op \in {"Add", "Multiply", "Divide"} -> "VisitDtype"
      [] op \in {"Subtract", "FloorDivide"} -> "VisitNumericDtype"
      [] op \in {"BitwiseAnd", "BitwiseOr", "BitwiseXor"} ->
            IF variant = "AA" THEN "VisitIntegralDtype" ELSE "VisitDtype"

KernelVisitorSubtractFull(op, variant) ==
    CASE op \in {"Add", "Multiply", "Divide"} -> "VisitDtype"
      [] op = "Subtract" -> IF variant = "AA" THEN "VisitNumericDtype" ELSE "VisitDtype"
      [] op = "FloorDivide" -> "VisitNumericDtype"
      [] op \in {"BitwiseAnd", "BitwiseOr", "BitwiseXor"} -> "VisitIntegralDtype"

KernelVisitor(op, variant) ==
    CASE op = "Add" -> IF variant = "AA" THEN DefaultVisitor ELSE "VisitDtype"
      [] op = "Subtract" -> "VisitNumericDtype"
      [] op = "Multiply" -> IF variant = "AA" THEN DefaultVisitor ELSE "VisitDtype"
      [] op = "FloorDivide" -> "VisitNumericDtype"
      [] op = "Divide" -> IF variant = "AA" THEN DefaultVisitor ELSE "VisitDtype"
      [] op \in Bitwise -> "VisitIntegralDtype"

\* The registration statements of the translation unit, in the order static
\* initialisation runs them.
\* Mutant: the Divide scalar-array kernel registered under FloorDivide's key.
RegistrationsRepeated ==
    << <<"Add", "AA">>, <<"Add", "AS">>,
       <<"Subtract", "AA">>, <<"Subtract", "AS">>,
       <<"Multiply", "AA">>, <<"Multiply", "AS">>,
       <<"FloorDivide", "AA">>, <<"FloorDivide", "AS">>, <<"FloorDivide", "SA">>,
       <<"Divide", "AA">>, <<"Divide", "AS">>, <<"FloorDivide", "SA">>,
       <<"BitwiseAnd", "AA">>, <<"BitwiseAnd", "AS">>,
       <<"BitwiseOr", "AA">>, <<"BitwiseOr", "AS">>,
       <<"BitwiseXor", "AA">>, <<"BitwiseXor", "AS">> >>

Registrations ==
    << <<"Add", "AA">>, <<"Add", "AS">>,
       <<"Subtract", "AA">>, <<"Subtract", "AS">>,
       <<"Multiply", "AA">>, <<"Multiply", "AS">>,
       <<"FloorDivide", "AA">>, <<"FloorDivide", "AS">>, <<"FloorDivide", "SA">>,
       <<"Divide", "AA">>, <<"Divide", "AS">>, <<"Divide", "SA">>,
       <<"BitwiseAnd", "AA">>, <<"BitwiseAnd", "AS">>,
       <<"BitwiseOr", "AA">>, <<"BitwiseOr", "AS">>,
       <<"BitwiseXor", "AA">>, <<"BitwiseXor", "AS">> >>

\* ------------------------------------------------------------- conversions
\* Native numeric conversion from an element of type `from` to type `to`.  A
\* floating value converts to an integer type by truncation, which is defined
\* when the truncated value is in range: every floating input the kernel
\* machine draws is non-negative and below 128.
Convert(from, to, v) ==
    IF from \in FloatTypes
    THEN IF to \in FloatTypes THEN Round(to, v)
         ELSE IF to = "bool" THEN (IF FIsZero(v) THEN 0 ELSE 1)
         ELSE StdDiv(v.n, v.d).quot
    ELSE IF to \in FloatTypes THEN Round(to, FromInt(v))
         ELSE IF to = "bool" THEN (IF v # 0 THEN 1 ELSE 0)
         ELSE StaticCastInt(to, v)

\* Array::AsType: a new array, every element converted.
AsType(a, to) == [j \in 1 .. Len(a.buf) |-> Convert(a.dtype, to, a.buf[j])]

\* ------------------------------------------------- per-element operators
\* The bitwise operators on two's-complement integers of any width: the low
\* bits combined, the rest shifted right arithmetically.
BitOf(op, x, y) ==
    CASE op = "BitwiseAnd" -> x * y
      [] op = "BitwiseOr" -> (x + y) - x * y
      [] op = "BitwiseXor" -> (x + y) % 2

RECURSIVE BitOp(_, _, _)
BitOp(op, a, b) ==
    IF a \in {0, 0 - 1} /\ b \in {0, 0 - 1}
    THEN 0 - BitOf(op, a % 2, b % 2)
    ELSE BitOf(op, a % 2, b % 2) + 2 * BitOp(op, a \div 2, b \div 2)

\* ArithmeticOps<T>: the native operator of T.  Integer results narrower than
\* int are computed in int and narrowed; bool results are the int result
\* converted to bool.
ArithmeticOps(op, t, a, b) ==
    IF t \in FloatTypes
    THEN CASE op = "Add" -> Round(t, FAdd(a, b))
           [] op = "Subtract" -> Round(t, FSub(a, b))
           [] op = "Multiply" -> Round(t, FMul(a, b))
           [] op = "Divide" -> Round(t, FDiv(a, b))
    ELSE LET r == CASE op = "Add" -> a + b
                    [] op = "Subtract" -> a - b
                    [] op = "Multiply" -> a * b
                    [] op = "Divide" -> StdDiv(a, b).quot
         IN  Convert("int64", t, r)

\* Integer division by zero, and the overflowing quotient, are undefined.
ArithmeticOpsUndefined(op, t, a, b) ==
    /\ op = "Divide"
    /\ t \notin FloatTypes
    /\ (b = 0 \/ (t \in {"int32", "int64"} /\ StdDivOverflows(t, a, b)))

\* The statement of Impl::operator(): out = <operator>(x1, x2).
Transform(op, t, x1, x2) ==
    CASE op = "FloorDivide" -> FloorDivide(t, x1, x2)
      [] op \in Bitwise -> Convert("int64", t, BitOp(op, x1, x2))
      [] OTHER -> ArithmeticOps(op, t, x1, x2)

TransformUndefined(op, t, x1, x2) ==
    \/ op = "FloorDivide" /\ FloorDivideUndefined(t, x1, x2)
    \/ ArithmeticOpsUndefined(op, t, x1, x2)

\* Impl::operator() of the scalar kernels: `member` is the Impl member holding
\* the converted scalar (x2 in the AS kernels, x1 in the SA kernels), `elem`
\* the element of the tensor input.
\* The pair is <<x1, x2>> of the operator applied.
\* Mutant: the scalar always on the right.
ImplOperandsScalarRight(variant, member, elem) == <<elem, member>>

ImplOperands(variant, member, elem) ==
    IF variant = "SA" THEN <<member, elem>> ELSE <<elem, member>>

\* ------------------------------------------------------------------ inputs
\* Element values the tensors of an invocation are filled from.
Sample(t) ==
    CASE t = "bool" -> <<1, 0>>
      [] t \in SignedInts -> <<7, 0 - 7, 0>>
      [] t = "uint8" -> <<5, 249, 0>>
      [] t \in FloatTypes -> <<Fin(15, 2), Fin(2, 1), Fin(0, 1)>>

\* A tensor of n elements: the sample values from position k on, cyclically.
Tensor(t, n, k) ==
    [dtype |-> t,
     buf |-> [j \in 1 .. n |-> Sample(t)[((j - 1 + k) % Len(Sample(t))) + 1]]]

Tensors(t) ==
    {Tensor(t, n, k) : n \in 1 .. MaxLen, k \in 0 .. (Len(Sample(t)) - 1)}

\* Element types of a tensor input that differ from the output's.
CastSources == {"int64", "uint8", "float64"}

\* A Scalar holds an int64_t or a double.
ScalarKinds == {"int64", "float64"}
ScalarValues(kind) == IF kind = "int64" THEN {0, 2, 0 - 7, 300} ELSE {Fin(15, 2)}

\* The output buffer before the invocation: every element 99 (1 for bool).
Fresh(t, n) == [j \in 1 .. n |-> Convert("int64", t, 99)]

NoTensor == [dtype |-> "none", buf |-> <<>>]
NoCast == [buf |-> <<>>, alias |-> FALSE]

\* ------------------------------------------------------- the steps of Call
\* Control flow of every Call in the file: CheckDevicesCompatible, then the
\* cast of the tensor input(s), then the dtype visitor, then the construction
\* of Impl (the conversion of the scalar), then Elementwise.
\* Mutant: the cast made before the device check.
StepAfterCastFirst(step) ==
    CASE step = "call" -> "cast"
      [] step = "cast" -> "check"
      [] step = "check" -> "visit"
      [] step = "visit" -> "bind"
      [] step = "bind" -> "loop"

StepAfter(step) ==
    CASE step = "call" -> "check"
      [] step = "check" -> "cast"
      [] step = "cast" -> "visit"
      [] step = "visit" -> "bind"
      [] step = "bind" -> "loop"

\* x.dtype() == out.dtype() ? x : x.AsType(out.dtype())
\* Mutant: a copy made whatever the types.
NeedsCastAlways(from, to) == TRUE
NeedsCast(from, to) == from # to

CastOf(a, to) ==
    IF NeedsCast(a.dtype, to)
    THEN [buf |-> AsType(a, to), alias |-> FALSE]
    ELSE [buf |-> a.buf, alias |-> TRUE]

CopiesOf(a, to) == IF NeedsCast(a.dtype, to) THEN 1 ELSE 0

KInit ==
    /\ registry = <<>>
    /\ pc = "init"
    /\ kernel = <<"none", "none">>
    /\ tin = NoTensor
    /\ other = NoTensor
    /\ out = NoTensor
    /\ out0 = <<>>
    /\ compatible = TRUE
    /\ tinCast = NoCast
    /\ otherCast = NoCast
    /\ copies = 0
    /\ T = "none"
    /\ captured = 0
    /\ conversions = 0
    /\ idx = 0
    /\ applied = 0
    /\ failure = "none"

\* One CHAINERX_NATIVE_REGISTER_*KERNEL statement runs.
Register ==
    /\ pc = "init"
    /\ Len(registry) < Len(Registrations)
    /\ registry' = Append(registry, Registrations[Len(registry) + 1])
    /\ pc' = IF Len(registry) + 1 = Len(Registrations) THEN "idle" ELSE "init"
    /\ UNCHANGED <<kernel, tin, other, out, out0, compatible, tinCast, otherCast,
                   copies, T, captured, conversions, idx, applied, failure, pvars>>

Registered == {registry[j] : j \in 1 .. Len(registry)}

Enter(k, x, y, o, c) ==
    /\ kernel' = k
    /\ tin' = x
    /\ other' = y
    /\ out' = [dtype |-> o, buf |-> Fresh(o, Len(x.buf))]
    /\ out0' = Fresh(o, Len(x.buf))
    /\ compatible' = c
    /\ pc' = StepAfter("call")
    /\ UNCHANGED <<registry, tinCast, otherCast, copies, T, captured, conversions,
                   idx, applied, failure, pvars>>

\* The dispatcher invokes a registered array-array kernel.
CallBinary ==
    /\ pc = "idle"
    /\ \E k \in Registered, o \in Dtypes, c \in BOOLEAN :
         /\ k[2] = "AA"
         /\ \E t1 \in {o} \cup CastSources, t2 \in {o, "int64"} :
              \E x \in Tensors(t1), y \in Tensors(t2) :
                 /\ Len(y.buf) = Len(x.buf)
                 /\ Enter(k, x, y, o, c)

\* The dispatcher invokes a registered array-scalar or scalar-array kernel.
CallScalar ==
    /\ pc = "idle"
    /\ \E k \in Registered, o \in Dtypes, c \in BOOLEAN :
         /\ k[2] \in {"AS", "SA"}
         /\ \E t1 \in {o} \cup CastSources, kind \in ScalarKinds :
              \E x \in Tensors(t1), v \in ScalarValues(kind) :
                 Enter(k, x, [kind |-> kind, v |-> v], o, c)

\* device.CheckDevicesCompatible(...): throws when the devices differ.
CheckDevices ==
    /\ pc = "check"
    /\ IF compatible
       THEN pc' = StepAfter("check") /\ failure' = failure
       ELSE pc' = "failed" /\ failure' = "device"
    /\ UNCHANGED <<registry, kernel, tin, other, out, out0, compatible, tinCast,
                   otherCast, copies, T, captured, conversions, idx, applied, pvars>>

\* const Array& x_cast = ...; both inputs in the array-array kernels.
Cast ==
    /\ pc = "cast"
    /\ tinCast' = CastOf(tin, out.dtype)
    /\ IF kernel[2] = "AA"
       THEN /\ otherCast' = CastOf(other, out.dtype)
            /\ copies' = copies + CopiesOf(tin, out.dtype) + CopiesOf(other, out.dtype)
       ELSE /\ otherCast' = otherCast
            /\ copies' = copies + CopiesOf(tin, out.dtype)
    /\ pc' = StepAfter("cast")
    /\ UNCHANGED <<registry, kernel, tin, other, out, out0, compatible, T, captured,
                   conversions, idx, applied, failure, pvars>>

\* Visit...Dtype(out.dtype(), ...): binds T, or never reaches the lambda.
Visit ==
    /\ pc = "visit"
    /\ IF out.dtype \in Accepts(KernelVisitor(kernel[1], kernel[2]))
       THEN T' = out.dtype /\ pc' = StepAfter("visit") /\ failure' = failure
       ELSE T' = T /\ pc' = "failed" /\ failure' = "dtype"
    /\ UNCHANGED <<registry, kernel, tin, other, out, out0, compatible, tinCast,
                   otherCast, copies, captured, conversions, idx, applied, pvars>>

\* Impl{static_cast<T>(scalar)} in the scalar kernels, Impl{} in the others.
Bind ==
    /\ pc = "bind"
    /\ IF kernel[2] = "AA"
       THEN captured' = captured /\ conversions' = conversions
       ELSE /\ captured' = Convert(other.kind, T, other.v)
            /\ conversions' = conversions + 1
    /\ idx' = 1
    /\ pc' = StepAfter("bind")
    /\ UNCHANGED <<registry, kernel, tin, other, out, out0, compatible, tinCast,
                   otherCast, copies, T, applied, failure, pvars>>

\* The operands Impl::operator() is applied to at the index idx.
OperandX1 ==
    IF kernel[2] = "AA" THEN tinCast.buf[idx]
    ELSE ImplOperands(kernel[2], captured, tinCast.buf[idx])[1]
OperandX2 ==
    IF kernel[2] = "AA" THEN otherCast.buf[idx]
    ELSE ImplOperands(kernel[2], captured, tinCast.buf[idx])[2]

\* Elementwise: Impl::operator() at the next index.
Step ==
    /\ pc = "loop"
    /\ idx <= Len(out.buf)
    /\ ~TransformUndefined(kernel[1], T, OperandX1, OperandX2)
    /\ out' = [out EXCEPT !.buf[idx] = Transform(kernel[1], T, OperandX1, OperandX2)]
    /\ applied' = applied + 1
    /\ idx' = idx + 1
    /\ UNCHANGED <<registry, pc, kernel, tin, other, out0, compatible, tinCast,
                   otherCast, copies, T, captured, conversions, failure, pvars>>

\* Impl::operator() with undefined behaviour: any value, and no further step
\* of the invocation is modelled.
StepUndefined ==
    /\ pc = "loop"
    /\ idx <= Len(out.buf)
    /\ TransformUndefined(kernel[1], T, OperandX1, OperandX2)
    /\ \E r \in {0, 1} : out' = [out EXCEPT !.buf[idx] = r]
    /\ applied' = applied + 1
    /\ pc' = "undefined"
    /\ UNCHANGED <<registry, kernel, tin, other, out0, compatible, tinCast, otherCast,
                   copies, T, captured, conversions, idx, failure, pvars>>

\* Elementwise has visited every index; Call returns.
Finish ==
    /\ pc = "loop"
    /\ idx > Len(out.buf)
    /\ pc' = "returned"
    /\ UNCHANGED <<registry, kernel, tin, other, out, out0, compatible, tinCast,
                   otherCast, copies, T, captured, conversions, idx, applied,
                   failure, pvars>>

\* The invocation is over; its locals are gone.
Return ==
    /\ pc \in {"returned", "failed", "undefined"}
    /\ pc' = "idle"
    /\ kernel' = <<"none", "none">>
    /\ tin' = NoTensor
    /\ other' = NoTensor
    /\ out' = NoTensor
    /\ out0' = <<>>
    /\ compatible' = TRUE
    /\ tinCast' = NoCast
    /\ otherCast' = NoCast
    /\ copies' = 0
    /\ T' = "none"
    /\ captured' = 0
    /\ conversions' = 0
    /\ idx' = 0
    /\ applied' = 0
    /\ failure' = "none"
    /\ UNCHANGED <<registry, pvars>>

\* What the array-array kernel of an operator does with inputs x1, x2 and an
\* output of element type o on compatible devices: both inputs cast, the
\* visitor, then the operator at every index.
BinaryKernelCall(op, x1, x2, o) ==
    IF o \notin Accepts(KernelVisitor(op, "AA"))
    THEN [status |-> "failed", buf |-> <<>>]
    ELSE LET a == CastOf(x1, o).buf
             b == CastOf(x2, o).buf
         IN  IF \E j \in 1 .. Len(a) : TransformUndefined(op, o, a[j], b[j])
             THEN [status |-> "undefined", buf |-> <<>>]
             ELSE [status |-> "returned",
                   buf |-> [j \in 1 .. Len(a) |-> Transform(op, o, a[j], b[j])]]

\* ========================================================== specifications
Init == PrimIdle /\ KInit

Next ==
    \/ Register
    \/ CallScalar
    \/ CallBinary
    \/ CheckDevices
    \/ Cast
    \/ Visit
    \/ Bind
    \/ Step
    \/ StepUndefined
    \/ Finish
    \/ Return

Spec == Init /\ [][Next]_vars

InitPrim == PrimReady /\ KInit

NextPrim ==
    \/ PrimReturn
    \/ PrimUndefined

SpecPrim == InitPrim /\ [][NextPrim]_vars

\* ================================================================== claims
\* ---------------------------------------------------------------- reference
\* a / p rounded up, p > 0.
CeilDiv(a, p) == (a \div p) + (IF a % p = 0 THEN 0 ELSE 1)

\* q is the floor of the exact quotient a / b (b # 0).  a \div b is that floor
\* for b > 0; for b < 0 it is minus the ceiling of a / (-b), stated without
\* negating b where |a| <= |b|, the only case in which b can be the most
\* negative integer.  No q satisfies it when the floor is not an integer of
\* the machine.
IsFloorOf(q, a, b) ==
    IF b > 0 THEN q = a \div b
    ELSE IF a <= 0 /\ a >= b THEN q = (IF a = b THEN 1 ELSE 0)
    ELSE IF a > 0 /\ a + b <= 0 THEN q = 0 - 1
    ELSE q + CeilDiv(a, 0 - b) = 0

\* The most negative value of the type divided by -1: the exact quotient,
\* 2^(w-1), is not a value of the type.
QuotientUnrepresentable(t, x, y) == HasLimits(t) /\ x = IntMin(t) /\ y = 0 - 1

\* C1 as stated: for every signed integer type and all a, b with b # 0,
\* FloorDivide(a, b) is the floor of the exact quotient a / b.
C1_FloorOfExactQuotient ==
    (pPc # "ready" /\ pT \in SignedInts /\ pY # 0) => IsFloorOf(pOut, pX, pY)

\* C1 amended: for every signed integer type and all a, b with b # 0 other than
\* a = MIN, b = -1, FloorDivide(a, b) returns the floor of the exact quotient;
\* at a = MIN, b = -1 the 8- and 16-bit overloads return MIN (the 32-bit result
\* 2^(w-1) narrowed) and the 32-bit overload does not return a defined value.
C1_FloorUnlessUnrepresentable ==
    (pPc # "ready" /\ pT \in SignedInts /\ pY # 0) =>
        IF QuotientUnrepresentable(pT, pX, pY)
        THEN IF pT \in {"int8", "int16"}
             THEN pPc = "returned" /\ pOut = IntMin(pT)
             ELSE pPc = "undefined"
        ELSE pPc = "returned" /\ IsFloorOf(pOut, pX, pY)

C1_Witness ==
    /\ pPc = "returned"
    /\ pT = "int16"
    /\ pX = 0 - 7
    /\ pY = 2
    /\ pOut = 0 - 4

\* C2: for every integer type and every a, FloorDivide(a, 0) returns 0 without
\* an error, and for uint8 with a non-zero divisor the result is the plain
\* quotient x / y.
C2_ZeroDivisorIsZero ==
    (pPc # "ready" /\ pT \in IntegerTypes) =>
        /\ pY = 0 => (pPc = "returned" /\ pOut = 0)
        /\ (pT = "uint8" /\ pY # 0) =>
              (pPc = "returned" /\ pOut * pY <= pX /\ pX < pOut * pY + pY)

C2_Witness ==
    /\ pPc = "returned"
    /\ pT = "int64"
    /\ pX = 0 - 7
    /\ pY = 0
    /\ pOut = 0

\* The exact quotient x / y of two finite values, y # 0, as numerator and
\* positive denominator.
QuotNum(x, y) == x.n * y.d * Sgn(y.n)
QuotDen(x, y) == x.d * Abs(y.n)

QuotientExact(t, x, y) ==
    LET q == Fin(QuotNum(x, y), QuotDen(x, y))
    IN  IsPow2(q.d) /\ Round(t, q) = q

\* C10: for the floating types and all x, y with y # 0 and an exactly
\* representable quotient, FloorDivide(x, y) is floor(x / y): the truncated
\* quotient, less 1 exactly when the remainder is non-zero and its sign
\* differs from the divisor's.
C10_FloatingFloor ==
    (pPc # "ready" /\ pT \in FloatTypes /\ ~FIsZero(pY) /\ QuotientExact(pT, pX, pY)) =>
        LET qr == StdDiv(QuotNum(pX, pY), QuotDen(pX, pY))
            rem == Fmod(pX, pY)
            lower == rem.n # 0 /\ Sgn(rem.n) # Sgn(pY.n)
        IN  /\ pPc = "returned"
            /\ pOut.c = "fin"
            /\ pOut.d = 1
            /\ IsFloorOf(pOut.n, QuotNum(pX, pY), QuotDen(pX, pY))
            /\ pOut.n = qr.quot - (IF lower THEN 1 ELSE 0)

C10_Witness ==
    /\ pPc = "returned"
    /\ pT = "float16"
    /\ pX = Fin(15, 2)
    /\ pY = Fin(0 - 2, 1)
    /\ pOut = Fin(0 - 4, 1)

\* ------------------------------------------------------ kernel invocations
ScalarCall == kernel[2] \in {"AS", "SA"}
Executing == pc \in {"bind", "loop", "returned", "undefined"}

\* Indices the element-wise loop has written.
Written == IF pc \in {"loop", "returned"} THEN 1 .. (idx - 1) ELSE {}

\* The divisor the operator is given at index j.
DivisorAt(j) ==
    CASE kernel[2] = "AA" -> otherCast.buf[j]
      [] kernel[2] = "AS" -> captured
      [] kernel[2] = "SA" -> tinCast.buf[j]

IsZero(t, v) == IF t \in FloatTypes THEN FIsZero(v) ELSE v = 0

\* C3 as stated: in every floor-divide kernel and for every element type,
\* floating ones included, a zero divisor produces 0.
C3_ZeroDivisorUniform ==
    kernel[1] = "FloorDivide" =>
        \A j \in Written : IsZero(T, DivisorAt(j)) => IsZero(T, out.buf[j])

\* C3 amended: in every floor-divide kernel (array-array, array-scalar with a
\* zero scalar, scalar-array with a zero element) a zero divisor raises no
\* error; it produces 0 for the integer element types and NaN for float16,
\* float32 and float64.
C3_ZeroDivisorByKind ==
    kernel[1] = "FloorDivide" =>
        /\ \A j \in Written :
              IsZero(T, DivisorAt(j)) =>
                 IF T \in FloatTypes THEN IsNaN(out.buf[j]) ELSE out.buf[j] = 0
        /\ (pc = "loop" /\ idx <= Len(out.buf) /\ IsZero(T, DivisorAt(idx))) =>
              ~TransformUndefined("FloorDivide", T, OperandX1, OperandX2)

C3_Witness ==
    /\ kernel = <<"FloorDivide", "SA">>
    /\ pc = "returned"
    /\ T = "float32"
    /\ \E j \in Written : IsZero(T, DivisorAt(j)) /\ IsNaN(out.buf[j])

\* The tensor of n elements of type o every element of which is the scalar sc
\* converted to o.
Filled(sc, o, n) == [dtype |-> o, buf |-> [j \in 1 .. n |-> Convert(sc.kind, o, sc.v)]]

ArrayArrayEquivalent ==
    LET b == Filled(other, out.dtype, Len(tin.buf))
    IN  IF kernel[2] = "SA"
        THEN BinaryKernelCall(kernel[1], b, tin, out.dtype)
        ELSE BinaryKernelCall(kernel[1], tin, b, out.dtype)

\* C4: a scalar kernel writes what the array-array kernel of the same operator
\* writes for the tensor input and a tensor filled with the scalar converted
\* to the output's element type, the scalar on the side the variant names.
C4_ScalarAgreesWithArrayArray ==
    (ScalarCall /\ pc \in {"returned", "undefined"}) =>
        /\ ArrayArrayEquivalent.status = pc
        /\ pc = "returned" => ArrayArrayEquivalent.buf = out.buf

C4_Witness ==
    /\ kernel = <<"FloorDivide", "AS">>
    /\ pc = "returned"
    /\ tin.dtype = "int32"
    /\ out.dtype = "int32"
    /\ other.kind = "int64"
    /\ other.v = 2
    /\ tin.buf = <<7, 0 - 7>>
    /\ out.buf = <<3, 0 - 4>>

\* C5: a bitwise kernel invoked with a floating output element type fails; the
\* per-element transform never runs and no output element is written.
C5_BitwiseRejectsFloating ==
    (kernel[1] \in Bitwise /\ out.dtype \in FloatTypes) =>
        /\ pc \in {"check", "cast", "visit", "failed"}
        /\ T = "none"
        /\ applied = 0
        /\ out.buf = out0

C5_Witness ==
    /\ kernel = <<"BitwiseXor", "AS">>
    /\ out.dtype = "float16"
    /\ pc = "failed"
    /\ failure = "dtype"

\* The acceptance subsets the claim declares, by the visitor of that subset.
DeclaredVisitor(op) ==
    CASE op \in {"Add", "Multiply"} -> "VisitDtype"
      [] op \in {"Subtract", "Divide", "FloorDivide"} -> "VisitNumericDtype"
      [] op \in Bitwise -> "VisitIntegralDtype"

\* C6 as stated: every variant of Subtract, Divide and FloorDivide runs only
\* over the numeric subset, the bitwise operators only over the integral
\* subset, Add and Multiply alone over the full subset.
C6_DeclaredSubsets ==
    /\ Executing => out.dtype \in Accepts(DeclaredVisitor(kernel[1]))
    /\ (pc = "failed" /\ failure = "dtype") =>
          out.dtype \notin Accepts(DeclaredVisitor(kernel[1]))

\* The subsets with Divide moved to the full one.
ActualVisitor(op) ==
    CASE op \in {"Add", "Multiply", "Divide"} -> "VisitDtype"
      [] op \in {"Subtract", "FloorDivide"} -> "VisitNumericDtype"
      [] op \in Bitwise -> "VisitIntegralDtype"

\* C6 amended: every variant of Subtract and FloorDivide runs only over the
\* numeric subset, the bitwise operators only over the integral subset, and
\* Add, Multiply and Divide (DivideKernel, DivideASKernel, DivideSAKernel)
\* over the full subset.
C6_SubsetsWithDivideFull ==
    /\ Executing => out.dtype \in Accepts(ActualVisitor(kernel[1]))
    /\ (pc = "failed" /\ failure = "dtype") =>
          out.dtype \notin Accepts(ActualVisitor(kernel[1]))

C6_Witness ==
    /\ kernel = <<"Divide", "SA">>
    /\ pc = "returned"
    /\ T = "bool"
    /\ applied > 0

\* C7: in every scalar kernel the device check precedes the cast and the
\* dispatch; when it fails no copy is made, the transform is not invoked and
\* the output is unchanged.
C7_DeviceCheckFirst ==
    ScalarCall =>
        /\ pc = "check" => (tinCast = NoCast /\ copies = 0 /\ T = "none")
        /\ ~compatible =>
              /\ pc \in {"check", "failed"}
              /\ tinCast = NoCast
              /\ copies = 0
              /\ T = "none"
              /\ conversions = 0
              /\ applied = 0
              /\ out.buf = out0

C7_Witness ==
    /\ ScalarCall
    /\ pc = "failed"
    /\ failure = "device"
    /\ tin.dtype # out.dtype

\* v is a value of the element type t.
IsElement(t, v) ==
    IF t \in FloatTypes
    THEN v.c \in {"fin", "nan", "inf"} /\ Round(t, v) = v
    ELSE IF t = "bool" THEN v \in {0, 1}
    ELSE IF HasLimits(t) THEN IntMin(t) <= v /\ v <= IntMax(t)
    ELSE v \in Int

\* C8: in every scalar kernel the output's element type is the execution
\* type; the tensor input is copied exactly when its element type differs and
\* is aliased otherwise; the scalar is converted once and is the same for
\* every index; the transform reads and writes values of that type only.
C8_ExecutionTypeIsOutputs ==
    (ScalarCall /\ pc \in {"visit", "bind", "loop", "returned", "undefined"}) =>
        /\ tinCast.alias = (tin.dtype = out.dtype)
        /\ tinCast.alias => (tinCast.buf = tin.buf /\ copies = 0)
        /\ ~tinCast.alias => copies = 1
        /\ \A j \in 1 .. Len(tinCast.buf) : IsElement(out.dtype, tinCast.buf[j])
        /\ T \in {"none", out.dtype}
        /\ conversions = (IF pc \in {"loop", "returned", "undefined"} THEN 1 ELSE 0)
        /\ pc \in {"loop", "returned", "undefined"} =>
              /\ captured = Convert(other.kind, out.dtype, other.v)
              /\ IsElement(out.dtype, captured)
        /\ \A j \in Written : IsElement(out.dtype, out.buf[j])
        /\ applied = (IF pc = "undefined" THEN idx ELSE IF pc \in {"loop", "returned"} THEN idx - 1 ELSE 0)

C8_Witness ==
    /\ ScalarCall
    /\ pc = "returned"
    /\ tin.dtype = "uint8"
    /\ out.dtype = "int8"
    /\ copies = 1
    /\ conversions = 1
    /\ applied = 2

\* The keys a conforming registration table holds.
ExpectedKeys ==
    {<<op, v>> : op \in Ops, v \in {"AA", "AS"}}
        \cup {<<"Divide", "SA">>, <<"FloorDivide", "SA">>}

RegistryComplete ==
    /\ \A i, j \in 1 .. Len(registry) : i # j => registry[i] # registry[j]
    /\ pc # "init" => (Registered = ExpectedKeys /\ Len(registry) = Cardinality(ExpectedKeys))

\* C9: after initialisation the table holds exactly one kernel per key, no key
\* is registered twice, the keys are array-array and array-scalar for the eight
\* operators and scalar-array for Divide and FloorDivide only, and no kernel
\* invocation changes the table.
C9_RegisteredExactlyOnce ==
    /\ []RegistryComplete
    /\ [][pc # "init" => registry' = registry]_vars

C9_Witness ==
    /\ pc = "returned"
    /\ kernel = <<"FloorDivide", "SA">>
    /\ Len(registry) = 18

============================================================================
